---- MODULE Spec2Model ----
(***************************************************************************)
(* State-machine model of the span lifecycle of package monitor            *)
(* (src/span.go): newSpan, the exit closure it returns, addChild,          *)
(* removeChild and orphan.  Every span is started and finished by its own  *)
(* execution path; pc[s] is the position of that path inside newSpan or    *)
(* inside the exit closure.  A position named after a callback is the      *)
(* state in which that callback is executing.                              *)
(***************************************************************************)
EXTENDS Integers, FiniteSets, Sequences

\* Number of spans (and of execution paths) of the model.
NumSpans == 3

Spans == 1..NumSpans

\* At most this many of the spans are started without a parent.
MaxRoots == 2

\* At most this many exit closures are invoked while a fault propagates.
MaxPanics == 1

\* At most this many times is an observer set on, or removed from, a trace.
MaxSetObserver == 1

\* The nil *Span.
NoSpan == 0

\* The nil *Trace; trace s is the one NewTrace(id) mints for span s and
\* ExtTrace is a trace the caller created and passes explicitly.
NoTrace == 0
ExtTrace == NumSpans + 1
Traces == 1..ExtTrace

\* recover() returns nil when no fault propagates, else the fault value.
NoFault == "nil"
FaultValues == {"f1"}

\* A free spinLock; a held one records the execution path holding it.
Free == 0

\* Number of execution paths that call the accessors Annotate and
\* Annotations, and the holder they are recorded as in a lock.
NumAccessors == 2
Accessors == 1..NumAccessors
Holder(t) == NumSpans + t

\* At most this many annotations are appended to a span.
MaxAnnotations == 3

\* The Annotation values callers append, and the value a caller overwrites
\* an element of a returned slice with.
AnnValues == {"a", "b"}
Scribble == "x"

\* The longest a span's annotations get: every path may have passed the
\* caller's test before any of them has appended.
MaxLen == MaxAnnotations + NumAccessors - 1

\* Backing arrays: enough for every growth of a span's slice and for one
\* returned copy per accessor path.  NoArray is a nil slice's array.
NoArray == 0
Arrays == 1..(MaxLen + NumAccessors)
NilSlice == [arr |-> NoArray, len |-> 0, cap |-> 0]

\* No Annotations() call of the path has returned yet.
NotReturned == <<"none">>

VARIABLES
  pc,            \* position of every span's execution path
  parent,        \* Span.parent
  trace,         \* Span.trace
  observer,      \* newSpan's local `observer`, captured by the closure
  done,          \* Span.done
  orphaned,      \* Span.orphaned
  children,      \* Span.children
  mtx,           \* Span.mtx: Free or the path holding it
  rec,           \* the exit closure's local `rec`
  orphanedLoc,   \* the exit closure's local `orphaned`
  snap,          \* the exit closure's local `children`, not yet iterated
  target,        \* receiver of the orphan() call a path executes, if any
  traceObserver, \* the observer a trace currently has (TRUE: one is set)
  calls,         \* per span, how often each callback (and panic) was made
  panickedArg,   \* the panicked argument Func.end / observer.Finish received
  raised,        \* the value the exit closure re-panicked with
  orphanCalls,   \* history: orphan() invocations on a span, per call site
  liveAtParentDone, \* history: in the parent's snapshot while not yet done
  parentAtStart, \* history: where the parent's path was when newSpan began
  setObserverCalls, \* number of SetObserver calls made so far
  ctxSpan,       \* history: the span newSpan's ctx was or carried, if any
  everObserved,  \* history: the trace has had an observer at some time
  annotations,   \* Span.annotations: a slice header (array, len, cap)
  heap,          \* the backing arrays of all slices, by array id
  apc,           \* position of every accessor path
  aspan,         \* the span an accessor path operates on
  aval,          \* the Annotation an Annotate call appends
  alocal,        \* Annotations(): the local slice header `annotations`
  acopy,         \* Annotations(): the elements copied so far
  aret,          \* the slice an Annotations() call returned to its caller
  result,        \* history: the elements of that slice when it was returned
  seen,          \* history: what had been returned when the call began
  returned       \* history: every sequence any Annotations() call returned

vars == <<pc, parent, trace, observer, done, orphaned, children, mtx, rec,
          orphanedLoc, snap, target, traceObserver, calls, panickedArg,
          raised, orphanCalls, liveAtParentDone, parentAtStart,
          setObserverCalls, ctxSpan, everObserved, annotations, heap, apc,
          aspan, aval, alocal, acopy, aret, result, seen, returned>>

\* The state of the accessors Annotate and Annotations and of their callers.
annVars == <<annotations, heap, apc, aspan, aval, alocal, acopy, aret, result,
             seen, returned>>

\* The callbacks into Func, the registry and the observer.
Callbacks == {"observeTrace", "fstart", "rootSpanStart", "obsStart", "fend",
              "orphanedSpan", "orphanEnd", "rootSpanEnd", "obsFinish"}

\* Positions inside newSpan before the new span is reachable by any other
\* path (it is not yet in a child set, nor handed to registry or observer).
Unpublished == {"idle", "observeTrace", "getObserver", "fstart",
                "addChild_lock", "addChild_cs", "rootSpanStart"}

\* Positions inside orphan(), called from addChild (a_) or from the exit
\* closure's loop over its snapshot (f_).
InOrphanLock == {"a_orphan_lock", "f_orphan_lock"}
InOrphanCS == {"a_orphan_cs", "f_orphan_cs"}
InOrphanedSpan == {"a_orphanedSpan", "f_orphanedSpan"}
FromAddChild == {"a_orphan_lock", "a_orphan_cs", "a_orphanedSpan"}

\* Positions of the exit closure.
InExit == {"fend", "finish_lock", "finish_cs", "finish_loop", "f_orphan_lock",
           "f_orphan_cs", "f_orphanedSpan", "removeChild_lock",
           "removeChild_cs", "orphanEnd", "rootSpanEnd", "obsFinish",
           "panic", "finished"}

\* Positions inside newSpan, and inside the exit closure before it returns.
Starting == {"observeTrace", "getObserver", "fstart", "addChild_lock",
             "addChild_cs", "a_orphan_lock", "a_orphan_cs", "a_orphanedSpan",
             "rootSpanStart", "obsStart"}
Exiting == InExit \ {"finished"}

\* Positions at which a callback into Func, registry or observer executes.
InCallback == {"observeTrace", "fstart", "rootSpanStart", "obsStart", "fend",
               "a_orphanedSpan", "f_orphanedSpan", "orphanEnd", "rootSpanEnd",
               "obsFinish"}

\* The spans started so far that have no parent.
Roots == {s \in Spans : pc[s] # "idle" /\ parent[s] = NoSpan}

\* Where the path of span p is: not a span, inside newSpan or the caller's
\* work, inside the exit closure, or past it.
Phase(p) ==
  IF p = NoSpan THEN "none"
  ELSE IF pc[p] = "finished" THEN "finished"
  ELSE IF pc[p] \in Exiting THEN "exiting"
  ELSE "live"

Constructed(s) == pc[s] \notin {"idle", "observeTrace", "getObserver"}

\* The contexts newSpan can be given: the background context, a span itself,
\* or a context that carries a span under spanKey.
Ctxs == [kind : {"bg"}, span : {NoSpan}]
          \cup [kind : {"span", "value"},
                span : {p \in Spans : pc[p] \notin Unpublished}]

\* newSpan lines 69-84: the parent.
ResolveParent(ctx, tr) ==
  IF ctx.kind = "span"
    THEN IF tr = NoTrace THEN ctx.span ELSE NoSpan
    ELSE IF ctx.kind = "value"
      THEN IF tr = NoTrace THEN ctx.span ELSE NoSpan
      ELSE NoSpan

\* newSpan lines 69-84: the trace.
ResolveTrace(ctx, tr, id) ==
  IF tr # NoTrace THEN tr
  ELSE IF ctx.kind \in {"span", "value"} THEN trace[ctx.span]
  ELSE id

\* newSpan line 81: a trace is minted (and reported by observeTrace).
MintsTrace(ctx, tr) == ctx.kind = "bg" /\ tr = NoTrace

Goto(s, l) == pc' = [pc EXCEPT ![s] = l]

Call(s, cb) == calls' = [calls EXCEPT ![s][cb] = @ + 1]

Lock(m, t) == mtx[m] = Free /\ mtx' = [mtx EXCEPT ![m] = t]

Unlock(m) == mtx' = [mtx EXCEPT ![m] = Free]

Init ==
  /\ pc = [s \in Spans |-> "idle"]
  /\ parent = [s \in Spans |-> NoSpan]
  /\ trace = [s \in Spans |-> NoTrace]
  /\ observer = [s \in Spans |-> FALSE]
  /\ done = [s \in Spans |-> FALSE]
  /\ orphaned = [s \in Spans |-> FALSE]
  /\ children = [s \in Spans |-> {}]
  /\ mtx = [s \in Spans |-> Free]
  /\ rec = [s \in Spans |-> NoFault]
  /\ orphanedLoc = [s \in Spans |-> FALSE]
  /\ snap = [s \in Spans |-> {}]
  /\ target = [s \in Spans |-> NoSpan]
  /\ traceObserver = [t \in Traces |-> FALSE]
  /\ calls = [s \in Spans |-> [c \in Callbacks \cup {"panic"} |-> 0]]
  /\ panickedArg = [s \in Spans |-> [c \in {"fend", "obsFinish"} |-> "unset"]]
  /\ raised = [s \in Spans |-> NoFault]
  /\ orphanCalls = [s \in Spans |-> [addChild |-> 0, finish |-> 0]]
  /\ liveAtParentDone = [s \in Spans |-> FALSE]
  /\ parentAtStart = [s \in Spans |-> "none"]
  /\ setObserverCalls = 0
  /\ ctxSpan = [s \in Spans |-> NoSpan]
  /\ everObserved = traceObserver
  /\ annotations = [s \in Spans |-> NilSlice]
  /\ heap = [a \in Arrays |-> <<>>]
  /\ apc = [t \in Accessors |-> "idle"]
  /\ aspan = [t \in Accessors |-> NoSpan]
  /\ aval = [t \in Accessors |-> "none"]
  /\ alocal = [t \in Accessors |-> NilSlice]
  /\ acopy = [t \in Accessors |-> <<>>]
  /\ aret = [t \in Accessors |-> NilSlice]
  /\ result = [t \in Accessors |-> NotReturned]
  /\ seen = [t \in Accessors |-> {}]
  /\ returned = [s \in Spans |-> {}]

(***************************************************************************)
(* newSpan                                                                 *)
(***************************************************************************)

\* Where newSpan continues after the span is linked (lines 105-109).
AfterLink(s) == IF observer[s] THEN "obsStart" ELSE "running"

\* Lines 66-84: the caller starts span s; parent and trace are resolved.
\* Spans are numbered in the order in which they are started.
NewSpan(s, ctx, tr) ==
  /\ pc[s] = "idle"
  /\ \A q \in Spans : q < s => pc[q] # "idle"
  /\ ResolveParent(ctx, tr) = NoSpan => Cardinality(Roots) < MaxRoots
  /\ parent' = [parent EXCEPT ![s] = ResolveParent(ctx, tr)]
  /\ trace' = [trace EXCEPT ![s] = ResolveTrace(ctx, tr, s)]
  /\ parentAtStart' = [parentAtStart EXCEPT ![s] =
                         Phase(ResolveParent(ctx, tr))]
  /\ ctxSpan' = [ctxSpan EXCEPT ![s] = ctx.span]
  /\ Goto(s, IF MintsTrace(ctx, tr) THEN "observeTrace" ELSE "getObserver")
  /\ UNCHANGED <<observer, done, orphaned, children, mtx, rec, orphanedLoc,
                 snap, target, traceObserver, calls, panickedArg, raised,
                 orphanCalls, liveAtParentDone, setObserverCalls>>
  /\ UNCHANGED <<everObserved, annVars>>

\* Line 83: f.scope.r.observeTrace(trace).
ObserveTrace(s) ==
  /\ pc[s] = "observeTrace"
  /\ Call(s, "observeTrace")
  /\ Goto(s, "getObserver")
  /\ UNCHANGED <<parent, trace, observer, done, orphaned, children, mtx, rec,
                 orphanedLoc, snap, target, traceObserver, panickedArg,
                 raised, orphanCalls, liveAtParentDone, parentAtStart,
                 setObserverCalls>>
  /\ UNCHANGED <<ctxSpan, everObserved, annVars>>

\* Lines 86-95: the trace's observer is read once and the Span is built.
GetObserver(s) ==
  /\ pc[s] = "getObserver"
  /\ observer' = [observer EXCEPT ![s] = traceObserver[trace[s]]]
  /\ Goto(s, "fstart")
  /\ UNCHANGED <<parent, trace, done, orphaned, children, mtx, rec,
                 orphanedLoc, snap, target, traceObserver, calls, panickedArg,
                 raised, orphanCalls, liveAtParentDone, parentAtStart,
                 setObserverCalls>>
  /\ UNCHANGED <<ctxSpan, everObserved, annVars>>

\* Variant of FStart after which every span is reported as a root.
FStart_AlwaysRoot(s) ==
  /\ pc[s] = "fstart"
  /\ Call(s, "fstart")
  /\ Goto(s, "rootSpanStart")
  /\ UNCHANGED <<parent, trace, observer, done, orphaned, children, mtx, rec,
                 orphanedLoc, snap, target, traceObserver, panickedArg,
                 raised, orphanCalls, liveAtParentDone, parentAtStart,
                 setObserverCalls>>
  /\ UNCHANGED <<ctxSpan, everObserved, annVars>>

\* Lines 97-101: f.start(parent.f) or f.start(nil).
FStart(s) ==
  /\ pc[s] = "fstart"
  /\ Call(s, "fstart")
  /\ Goto(s, IF parent[s] # NoSpan THEN "addChild_lock" ELSE "rootSpanStart")
  /\ UNCHANGED <<parent, trace, observer, done, orphaned, children, mtx, rec,
                 orphanedLoc, snap, target, traceObserver, panickedArg,
                 raised, orphanCalls, liveAtParentDone, parentAtStart,
                 setObserverCalls>>
  /\ UNCHANGED <<ctxSpan, everObserved, annVars>>

\* Line 102: f.scope.r.rootSpanStart(s).
RootSpanStart(s) ==
  /\ pc[s] = "rootSpanStart"
  /\ Call(s, "rootSpanStart")
  /\ Goto(s, AfterLink(s))
  /\ UNCHANGED <<parent, trace, observer, done, orphaned, children, mtx, rec,
                 orphanedLoc, snap, target, traceObserver, panickedArg,
                 raised, orphanCalls, liveAtParentDone, parentAtStart,
                 setObserverCalls>>
  /\ UNCHANGED <<ctxSpan, everObserved, annVars>>

\* Line 106: observer.Start(s).
ObserverStart(s) ==
  /\ pc[s] = "obsStart"
  /\ Call(s, "obsStart")
  /\ Goto(s, "running")
  /\ UNCHANGED <<parent, trace, observer, done, orphaned, children, mtx, rec,
                 orphanedLoc, snap, target, traceObserver, panickedArg,
                 raised, orphanCalls, liveAtParentDone, parentAtStart,
                 setObserverCalls>>
  /\ UNCHANGED <<ctxSpan, everObserved, annVars>>

(***************************************************************************)
(* addChild, removeChild, orphan                                           *)
(***************************************************************************)

\* Line 153: parent.addChild(s) takes the parent's lock.
AddChildLock(s) ==
  /\ pc[s] = "addChild_lock"
  /\ Lock(parent[s], s)
  /\ Goto(s, "addChild_cs")
  /\ UNCHANGED <<parent, trace, observer, done, orphaned, children, rec,
                 orphanedLoc, snap, target, traceObserver, calls, panickedArg,
                 raised, orphanCalls, liveAtParentDone, parentAtStart,
                 setObserverCalls>>
  /\ UNCHANGED <<ctxSpan, everObserved, annVars>>

\* Variant of AddChildCS without the re-check of done after the insertion.
AddChildCS_NoRecheck(s) ==
  /\ pc[s] = "addChild_cs"
  /\ children' = [children EXCEPT ![parent[s]] = @ \cup {s}]
  /\ Unlock(parent[s])
  /\ Goto(s, AfterLink(s))
  /\ UNCHANGED <<parent, trace, observer, done, orphaned, rec, orphanedLoc,
                 snap, target, traceObserver, calls, panickedArg, raised,
                 orphanCalls, liveAtParentDone, parentAtStart,
                 setObserverCalls>>
  /\ UNCHANGED <<ctxSpan, everObserved, annVars>>

\* Variant of AddChildCS that calls child.orphan() whatever done is.
AddChildCS_AlwaysOrphan(s) ==
  /\ pc[s] = "addChild_cs"
  /\ children' = [children EXCEPT ![parent[s]] = @ \cup {s}]
  /\ Unlock(parent[s])
  /\ target' = [target EXCEPT ![s] = s]
  /\ orphanCalls' = [orphanCalls EXCEPT ![s].addChild = @ + 1]
  /\ Goto(s, "a_orphan_lock")
  /\ UNCHANGED <<parent, trace, observer, done, orphaned, rec, orphanedLoc,
                 snap, traceObserver, calls, panickedArg, raised,
                 liveAtParentDone, parentAtStart, setObserverCalls>>
  /\ UNCHANGED <<ctxSpan, everObserved, annVars>>

\* Lines 154-159: insert, read done, unlock; orphan the child if done.
AddChildCS(s) ==
  /\ pc[s] = "addChild_cs"
  /\ children' = [children EXCEPT ![parent[s]] = @ \cup {s}]
  /\ Unlock(parent[s])
  /\ IF done[parent[s]]
       THEN /\ target' = [target EXCEPT ![s] = s]
            /\ orphanCalls' = [orphanCalls EXCEPT ![s].addChild = @ + 1]
            /\ Goto(s, "a_orphan_lock")
       ELSE /\ Goto(s, AfterLink(s))
            /\ UNCHANGED <<target, orphanCalls>>
  /\ UNCHANGED <<parent, trace, observer, done, orphaned, rec, orphanedLoc,
                 snap, traceObserver, calls, panickedArg, raised,
                 liveAtParentDone, parentAtStart,
                 setObserverCalls>>
  /\ UNCHANGED <<ctxSpan, everObserved, annVars>>

\* Where the exit closure continues once `remaining` of its snapshot is
\* left to orphan (lines 129-140).
LoopNext(s, remaining) ==
  IF remaining # {} THEN "finish_loop"
  ELSE IF parent[s] # NoSpan THEN "removeChild_lock" ELSE "rootSpanEnd"

\* Where path t continues when its orphan() call returns.
OrphanReturn(t) ==
  IF pc[t] \in FromAddChild THEN AfterLink(t) ELSE LoopNext(t, snap[t])

\* Line 169: orphan() takes the receiver's lock.
OrphanLock(t) ==
  /\ pc[t] \in InOrphanLock
  /\ Lock(target[t], t)
  /\ Goto(t, IF pc[t] \in FromAddChild THEN "a_orphan_cs" ELSE "f_orphan_cs")
  /\ UNCHANGED <<parent, trace, observer, done, orphaned, children, rec,
                 orphanedLoc, snap, target, traceObserver, calls, panickedArg,
                 raised, orphanCalls, liveAtParentDone, parentAtStart,
                 setObserverCalls>>
  /\ UNCHANGED <<ctxSpan, everObserved, annVars>>

\* Variant of OrphanCS whose test leaves out !s.done.
OrphanCS_NoDoneCheck(t) ==
  /\ pc[t] \in InOrphanCS
  /\ IF ~orphaned[target[t]]
       THEN /\ orphaned' = [orphaned EXCEPT ![target[t]] = TRUE]
            /\ Goto(t, IF pc[t] \in FromAddChild THEN "a_orphanedSpan"
                                                 ELSE "f_orphanedSpan")
            /\ UNCHANGED <<mtx, target>>
       ELSE /\ Unlock(target[t])
            /\ target' = [target EXCEPT ![t] = NoSpan]
            /\ Goto(t, OrphanReturn(t))
            /\ UNCHANGED orphaned
  /\ UNCHANGED <<parent, trace, observer, done, children, rec, orphanedLoc,
                 snap, traceObserver, calls, panickedArg, raised,
                 orphanCalls, liveAtParentDone, parentAtStart,
                 setObserverCalls>>
  /\ UNCHANGED <<ctxSpan, everObserved, annVars>>

\* Variant of OrphanCS that reports the orphan without setting s.orphaned.
OrphanCS_NoFlag(t) ==
  /\ pc[t] \in InOrphanCS
  /\ IF ~done[target[t]] /\ ~orphaned[target[t]]
       THEN /\ Goto(t, IF pc[t] \in FromAddChild THEN "a_orphanedSpan"
                                                 ELSE "f_orphanedSpan")
            /\ UNCHANGED <<mtx, target>>
       ELSE /\ Unlock(target[t])
            /\ target' = [target EXCEPT ![t] = NoSpan]
            /\ Goto(t, OrphanReturn(t))
  /\ UNCHANGED <<parent, trace, observer, done, orphaned, children, rec,
                 orphanedLoc, snap, traceObserver, calls, panickedArg, raised,
                 orphanCalls, liveAtParentDone, parentAtStart,
                 setObserverCalls>>
  /\ UNCHANGED <<ctxSpan, everObserved, annVars>>

\* Variant of OrphanCS that also flags the children of the orphaned span.
OrphanCS_Recursive(t) ==
  /\ pc[t] \in InOrphanCS
  /\ IF ~done[target[t]] /\ ~orphaned[target[t]]
       THEN /\ orphaned' = [c \in Spans |->
                              \/ orphaned[c]
                              \/ c = target[t]
                              \/ c \in children[target[t]]]
            /\ Goto(t, IF pc[t] \in FromAddChild THEN "a_orphanedSpan"
                                                 ELSE "f_orphanedSpan")
            /\ UNCHANGED <<mtx, target>>
       ELSE /\ Unlock(target[t])
            /\ target' = [target EXCEPT ![t] = NoSpan]
            /\ Goto(t, OrphanReturn(t))
            /\ UNCHANGED orphaned
  /\ UNCHANGED <<parent, trace, observer, done, children, rec, orphanedLoc,
                 snap, traceObserver, calls, panickedArg, raised,
                 orphanCalls, liveAtParentDone, parentAtStart,
                 setObserverCalls>>
  /\ UNCHANGED <<ctxSpan, everObserved, annVars>>

\* Lines 170-171 (and 174 when the test fails): the test and the flag.
OrphanCS(t) ==
  /\ pc[t] \in InOrphanCS
  /\ IF ~done[target[t]] /\ ~orphaned[target[t]]
       THEN /\ orphaned' = [orphaned EXCEPT ![target[t]] = TRUE]
            /\ Goto(t, IF pc[t] \in FromAddChild THEN "a_orphanedSpan"
                                                 ELSE "f_orphanedSpan")
            /\ UNCHANGED <<mtx, target>>
       ELSE /\ Unlock(target[t])
            /\ target' = [target EXCEPT ![t] = NoSpan]
            /\ Goto(t, OrphanReturn(t))
            /\ UNCHANGED orphaned
  /\ UNCHANGED <<parent, trace, observer, done, children, rec, orphanedLoc,
                 snap, traceObserver, calls, panickedArg, raised,
                 orphanCalls, liveAtParentDone, parentAtStart,
                 setObserverCalls>>
  /\ UNCHANGED <<ctxSpan, everObserved, annVars>>

\* Variant of OrphanedSpan that returns without s.mtx.Unlock().
OrphanedSpan_NoUnlock(t) ==
  /\ pc[t] \in InOrphanedSpan
  /\ Call(target[t], "orphanedSpan")
  /\ target' = [target EXCEPT ![t] = NoSpan]
  /\ Goto(t, OrphanReturn(t))
  /\ UNCHANGED <<parent, trace, observer, done, orphaned, children, mtx, rec,
                 orphanedLoc, snap, traceObserver, panickedArg,
                 raised, orphanCalls, liveAtParentDone, parentAtStart,
                 setObserverCalls>>
  /\ UNCHANGED <<ctxSpan, everObserved, annVars>>

\* Lines 172-174: s.f.scope.r.orphanedSpan(s), then unlock.
OrphanedSpan(t) ==
  /\ pc[t] \in InOrphanedSpan
  /\ Call(target[t], "orphanedSpan")
  /\ Unlock(target[t])
  /\ target' = [target EXCEPT ![t] = NoSpan]
  /\ Goto(t, OrphanReturn(t))
  /\ UNCHANGED <<parent, trace, observer, done, orphaned, children, rec,
                 orphanedLoc, snap, traceObserver, panickedArg,
                 raised, orphanCalls, liveAtParentDone, parentAtStart,
                 setObserverCalls>>
  /\ UNCHANGED <<ctxSpan, everObserved, annVars>>

\* Line 163: s.parent.removeChild(s) takes the parent's lock.
RemoveChildLock(s) ==
  /\ pc[s] = "removeChild_lock"
  /\ Lock(parent[s], s)
  /\ Goto(s, "removeChild_cs")
  /\ UNCHANGED <<parent, trace, observer, done, orphaned, children, rec,
                 orphanedLoc, snap, target, traceObserver, calls, panickedArg,
                 raised, orphanCalls, liveAtParentDone, parentAtStart,
                 setObserverCalls>>
  /\ UNCHANGED <<ctxSpan, everObserved, annVars>>

(***************************************************************************)
(* the exit closure                                                        *)
(***************************************************************************)

\* Where the closure continues after the registry was told (lines 142-148).
AfterObserver(s) == IF rec[s] # NoFault THEN "panic" ELSE "finished"

AfterRegistry(s) == IF observer[s] THEN "obsFinish" ELSE AfterObserver(s)

\* Variant of RemoveChildCS followed by orphanEnd whatever `orphaned` is.
RemoveChildCS_AlwaysOrphanEnd(s) ==
  /\ pc[s] = "removeChild_cs"
  /\ children' = [children EXCEPT ![parent[s]] = @ \ {s}]
  /\ Unlock(parent[s])
  /\ Goto(s, "orphanEnd")
  /\ UNCHANGED <<parent, trace, observer, done, orphaned, rec, orphanedLoc,
                 snap, target, traceObserver, calls, panickedArg, raised,
                 orphanCalls, liveAtParentDone, parentAtStart,
                 setObserverCalls>>
  /\ UNCHANGED <<ctxSpan, everObserved, annVars>>

\* Variant of RemoveChildCS that leaves the child in the set.
RemoveChildCS_NoRemove(s) ==
  /\ pc[s] = "removeChild_cs"
  /\ Unlock(parent[s])
  /\ Goto(s, IF orphanedLoc[s] THEN "orphanEnd" ELSE AfterRegistry(s))
  /\ UNCHANGED <<parent, trace, observer, done, orphaned, children, rec,
                 orphanedLoc, snap, target, traceObserver, calls, panickedArg,
                 raised, orphanCalls, liveAtParentDone, parentAtStart,
                 setObserverCalls>>
  /\ UNCHANGED <<ctxSpan, everObserved, annVars>>

\* Variant of RemoveChildCS that leaves an orphaned child in the set.
RemoveChildCS_UnlessOrphaned(s) ==
  /\ pc[s] = "removeChild_cs"
  /\ children' = [children EXCEPT ![parent[s]] =
                    IF orphanedLoc[s] THEN @ ELSE @ \ {s}]
  /\ Unlock(parent[s])
  /\ Goto(s, IF orphanedLoc[s] THEN "orphanEnd" ELSE AfterRegistry(s))
  /\ UNCHANGED <<parent, trace, observer, done, orphaned, rec, orphanedLoc,
                 snap, target, traceObserver, calls, panickedArg, raised,
                 orphanCalls, liveAtParentDone, parentAtStart,
                 setObserverCalls>>
  /\ UNCHANGED <<ctxSpan, everObserved, annVars>>

\* Lines 164-165 and 135-137: remove, unlock; orphanEnd if orphaned.
RemoveChildCS(s) ==
  /\ pc[s] = "removeChild_cs"
  /\ children' = [children EXCEPT ![parent[s]] = @ \ {s}]
  /\ Unlock(parent[s])
  /\ Goto(s, IF orphanedLoc[s] THEN "orphanEnd" ELSE AfterRegistry(s))
  /\ UNCHANGED <<parent, trace, observer, done, orphaned, rec, orphanedLoc,
                 snap, target, traceObserver, calls, panickedArg, raised,
                 orphanCalls, liveAtParentDone, parentAtStart,
                 setObserverCalls>>
  /\ UNCHANGED <<ctxSpan, everObserved, annVars>>

\* Variant of Exit without recover(): a propagating fault leaves the
\* closure at once.
Exit_NoRecover(s, fault) ==
  /\ pc[s] = "running"
  /\ fault # NoFault =>
       Cardinality({q \in Spans : rec[q] # NoFault}) < MaxPanics
  /\ rec' = [rec EXCEPT ![s] = fault]
  /\ IF fault # NoFault
       THEN /\ raised' = [raised EXCEPT ![s] = fault]
            /\ Call(s, "panic")
            /\ Goto(s, "finished")
       ELSE /\ Goto(s, "fend")
            /\ UNCHANGED <<raised, calls>>
  /\ UNCHANGED <<parent, trace, observer, done, orphaned, children, mtx,
                 orphanedLoc, snap, target, traceObserver, panickedArg,
                 orphanCalls, liveAtParentDone, parentAtStart,
                 setObserverCalls>>
  /\ UNCHANGED <<ctxSpan, everObserved, annVars>>

\* Variant of Exit that goes on to the locked section without reporting
\* to Func.end.
Exit_SkipEnd(s, fault) ==
  /\ pc[s] = "running"
  /\ fault # NoFault =>
       Cardinality({q \in Spans : rec[q] # NoFault}) < MaxPanics
  /\ rec' = [rec EXCEPT ![s] = fault]
  /\ Goto(s, "finish_lock")
  /\ UNCHANGED <<parent, trace, observer, done, orphaned, children, mtx,
                 orphanedLoc, snap, target, traceObserver, calls, panickedArg,
                 raised, orphanCalls, liveAtParentDone, parentAtStart,
                 setObserverCalls>>
  /\ UNCHANGED <<ctxSpan, everObserved, annVars>>

\* Lines 110-111: the caller invokes the closure; recover() yields the
\* propagating fault, or nil.
Exit(s, fault) ==
  /\ pc[s] = "running"
  /\ fault # NoFault =>
       Cardinality({q \in Spans : rec[q] # NoFault}) < MaxPanics
  /\ rec' = [rec EXCEPT ![s] = fault]
  /\ Goto(s, "fend")
  /\ UNCHANGED <<parent, trace, observer, done, orphaned, children, mtx,
                 orphanedLoc, snap, target, traceObserver, calls, panickedArg,
                 raised, orphanCalls, liveAtParentDone, parentAtStart,
                 setObserverCalls>>
  /\ UNCHANGED <<ctxSpan, everObserved, annVars>>

\* Line 119: s.f.end(err, panicked, duration).
FEnd(s) ==
  /\ pc[s] = "fend"
  /\ Call(s, "fend")
  /\ panickedArg' = [panickedArg EXCEPT ![s]["fend"] =
                       IF rec[s] # NoFault THEN "true" ELSE "false"]
  /\ Goto(s, "finish_lock")
  /\ UNCHANGED <<parent, trace, observer, done, orphaned, children, mtx, rec,
                 orphanedLoc, snap, target, traceObserver, raised,
                 orphanCalls, liveAtParentDone, parentAtStart,
                 setObserverCalls>>
  /\ UNCHANGED <<ctxSpan, everObserved, annVars>>

\* Line 122: s.mtx.Lock().
FinishLock(s) ==
  /\ pc[s] = "finish_lock"
  /\ Lock(s, s)
  /\ Goto(s, "finish_cs")
  /\ UNCHANGED <<parent, trace, observer, done, orphaned, children, rec,
                 orphanedLoc, snap, target, traceObserver, calls, panickedArg,
                 raised, orphanCalls, liveAtParentDone, parentAtStart,
                 setObserverCalls>>
  /\ UNCHANGED <<ctxSpan, everObserved, annVars>>

\* Variant of FinishCS that takes no snapshot of the children.
FinishCS_NoSnapshot(s) ==
  /\ pc[s] = "finish_cs"
  /\ done' = [done EXCEPT ![s] = TRUE]
  /\ orphanedLoc' = [orphanedLoc EXCEPT ![s] = orphaned[s]]
  /\ Unlock(s)
  /\ liveAtParentDone' =
       [c \in Spans |-> \/ liveAtParentDone[c]
                        \/ c \in children[s] /\ ~done[c]]
  /\ Goto(s, LoopNext(s, {}))
  /\ UNCHANGED <<parent, trace, observer, orphaned, children, rec, snap,
                 target, traceObserver, calls, panickedArg, raised,
                 orphanCalls, parentAtStart, setObserverCalls>>
  /\ UNCHANGED <<ctxSpan, everObserved, annVars>>

\* Variant of FinishCS that does not set done.
FinishCS_NoDone(s) ==
  /\ pc[s] = "finish_cs"
  /\ orphanedLoc' = [orphanedLoc EXCEPT ![s] = orphaned[s]]
  /\ snap' = [snap EXCEPT ![s] = children[s]]
  /\ Unlock(s)
  /\ liveAtParentDone' =
       [c \in Spans |-> \/ liveAtParentDone[c]
                        \/ c \in children[s] /\ ~done[c]]
  /\ Goto(s, LoopNext(s, children[s]))
  /\ UNCHANGED <<parent, trace, observer, done, orphaned, children, rec,
                 target, traceObserver, calls, panickedArg, raised,
                 orphanCalls, parentAtStart, setObserverCalls>>
  /\ UNCHANGED <<ctxSpan, everObserved, annVars>>

\* Variant of FinishCS that clears s.orphaned once it is captured.
FinishCS_ClearOrphaned(s) ==
  /\ pc[s] = "finish_cs"
  /\ done' = [done EXCEPT ![s] = TRUE]
  /\ orphanedLoc' = [orphanedLoc EXCEPT ![s] = orphaned[s]]
  /\ orphaned' = [orphaned EXCEPT ![s] = FALSE]
  /\ snap' = [snap EXCEPT ![s] = children[s]]
  /\ Unlock(s)
  /\ liveAtParentDone' =
       [c \in Spans |-> \/ liveAtParentDone[c]
                        \/ c \in children[s] /\ ~done[c]]
  /\ Goto(s, LoopNext(s, children[s]))
  /\ UNCHANGED <<parent, trace, observer, children, rec, target,
                 traceObserver, calls, panickedArg, raised, orphanCalls,
                 parentAtStart, setObserverCalls>>
  /\ UNCHANGED <<ctxSpan, everObserved, annVars>>

\* Variant of FinishCS that goes on without releasing s.mtx.
FinishCS_KeepLock(s) ==
  /\ pc[s] = "finish_cs"
  /\ done' = [done EXCEPT ![s] = TRUE]
  /\ orphanedLoc' = [orphanedLoc EXCEPT ![s] = orphaned[s]]
  /\ snap' = [snap EXCEPT ![s] = children[s]]
  /\ liveAtParentDone' =
       [c \in Spans |-> \/ liveAtParentDone[c]
                        \/ c \in children[s] /\ ~done[c]]
  /\ Goto(s, LoopNext(s, children[s]))
  /\ UNCHANGED <<parent, trace, observer, orphaned, children, mtx, rec,
                 target, traceObserver, calls, panickedArg, raised,
                 orphanCalls, parentAtStart, setObserverCalls>>
  /\ UNCHANGED <<ctxSpan, everObserved, annVars>>

\* Lines 123-128: done, the local orphaned, the snapshot, unlock.
FinishCS(s) ==
  /\ pc[s] = "finish_cs"
  /\ done' = [done EXCEPT ![s] = TRUE]
  /\ orphanedLoc' = [orphanedLoc EXCEPT ![s] = orphaned[s]]
  /\ snap' = [snap EXCEPT ![s] = children[s]]
  /\ Unlock(s)
  /\ liveAtParentDone' =
       [c \in Spans |-> \/ liveAtParentDone[c]
                        \/ c \in children[s] /\ ~done[c]]
  /\ Goto(s, LoopNext(s, children[s]))
  /\ UNCHANGED <<parent, trace, observer, orphaned, children, rec, target,
                 traceObserver, calls, panickedArg, raised, orphanCalls,
                 parentAtStart,
                 setObserverCalls>>
  /\ UNCHANGED <<ctxSpan, everObserved, annVars>>

\* Lines 129-130: the next child of the snapshot, in no particular order.
FinishLoop(s) ==
  /\ pc[s] = "finish_loop"
  /\ \E child \in snap[s] :
       /\ snap' = [snap EXCEPT ![s] = @ \ {child}]
       /\ target' = [target EXCEPT ![s] = child]
       /\ orphanCalls' = [orphanCalls EXCEPT ![child].finish = @ + 1]
  /\ Goto(s, "f_orphan_lock")
  /\ UNCHANGED <<parent, trace, observer, done, orphaned, children, mtx, rec,
                 orphanedLoc, traceObserver, calls, panickedArg, raised,
                 liveAtParentDone, parentAtStart,
                 setObserverCalls>>
  /\ UNCHANGED <<ctxSpan, everObserved, annVars>>

\* Line 136: s.f.scope.r.orphanEnd(s).
OrphanEnd(s) ==
  /\ pc[s] = "orphanEnd"
  /\ Call(s, "orphanEnd")
  /\ Goto(s, AfterRegistry(s))
  /\ UNCHANGED <<parent, trace, observer, done, orphaned, children, mtx, rec,
                 orphanedLoc, snap, target, traceObserver, panickedArg,
                 raised, orphanCalls, liveAtParentDone, parentAtStart,
                 setObserverCalls>>
  /\ UNCHANGED <<ctxSpan, everObserved, annVars>>

\* Line 139: s.f.scope.r.rootSpanEnd(s).
RootSpanEnd(s) ==
  /\ pc[s] = "rootSpanEnd"
  /\ Call(s, "rootSpanEnd")
  /\ Goto(s, AfterRegistry(s))
  /\ UNCHANGED <<parent, trace, observer, done, orphaned, children, mtx, rec,
                 orphanedLoc, snap, target, traceObserver, panickedArg,
                 raised, orphanCalls, liveAtParentDone, parentAtStart,
                 setObserverCalls>>
  /\ UNCHANGED <<ctxSpan, everObserved, annVars>>

\* Line 143: observer.Finish(s, err, panicked, finish).
ObserverFinish(s) ==
  /\ pc[s] = "obsFinish"
  /\ Call(s, "obsFinish")
  /\ panickedArg' = [panickedArg EXCEPT ![s]["obsFinish"] =
                       IF rec[s] # NoFault THEN "true" ELSE "false"]
  /\ Goto(s, AfterObserver(s))
  /\ UNCHANGED <<parent, trace, observer, done, orphaned, children, mtx, rec,
                 orphanedLoc, snap, target, traceObserver, raised,
                 orphanCalls, liveAtParentDone, parentAtStart,
                 setObserverCalls>>
  /\ UNCHANGED <<ctxSpan, everObserved, annVars>>

\* Line 147: panic(rec).
Panic(s) ==
  /\ pc[s] = "panic"
  /\ raised' = [raised EXCEPT ![s] = rec[s]]
  /\ Call(s, "panic")
  /\ Goto(s, "finished")
  /\ UNCHANGED <<parent, trace, observer, done, orphaned, children, mtx, rec,
                 orphanedLoc, snap, target, traceObserver, panickedArg,
                 orphanCalls, liveAtParentDone, parentAtStart,
                 setObserverCalls>>
  /\ UNCHANGED <<ctxSpan, everObserved, annVars>>

(***************************************************************************)
(* the environment                                                         *)
(***************************************************************************)

\* An observer is set on, or removed from, the trace of a span that has
\* started and not yet finished.
SetObserver(t, on) ==
  /\ traceObserver[t] # on
  /\ setObserverCalls < MaxSetObserver
  /\ setObserverCalls' = setObserverCalls + 1
  /\ \E s \in Spans : trace[s] = t /\ pc[s] # "finished"
  /\ traceObserver' = [traceObserver EXCEPT ![t] = on]
  /\ everObserved' = [everObserved EXCEPT ![t] = @ \/ on]
  /\ UNCHANGED <<pc, parent, trace, observer, done, orphaned, children, mtx,
                 rec, orphanedLoc, snap, target, calls, panickedArg, raised,
                 orphanCalls, liveAtParentDone, parentAtStart>>
  /\ UNCHANGED <<ctxSpan, annVars>>

Next ==
  \/ \E s \in Spans, ctx \in Ctxs, tr \in {NoTrace, ExtTrace} :
       NewSpan(s, ctx, tr)
  \/ \E s \in Spans : ObserveTrace(s)
  \/ \E s \in Spans : GetObserver(s)
  \/ \E s \in Spans : FStart(s)
  \/ \E s \in Spans : RootSpanStart(s)
  \/ \E s \in Spans : ObserverStart(s)
  \/ \E s \in Spans : AddChildLock(s)
  \/ \E s \in Spans : AddChildCS(s)
  \/ \E t \in Spans : OrphanLock(t)
  \/ \E t \in Spans : OrphanCS(t)
  \/ \E t \in Spans : OrphanedSpan(t)
  \/ \E s \in Spans, fault \in FaultValues \cup {NoFault} : Exit(s, fault)
  \/ \E s \in Spans : FEnd(s)
  \/ \E s \in Spans : FinishLock(s)
  \/ \E s \in Spans : FinishCS(s)
  \/ \E s \in Spans : FinishLoop(s)
  \/ \E s \in Spans : RemoveChildLock(s)
  \/ \E s \in Spans : RemoveChildCS(s)
  \/ \E s \in Spans : OrphanEnd(s)
  \/ \E s \in Spans : RootSpanEnd(s)
  \/ \E s \in Spans : ObserverFinish(s)
  \/ \E s \in Spans : Panic(s)
  \/ \E t \in Traces, on \in BOOLEAN : SetObserver(t, on)

Spec == Init /\ [][Next]_vars

(***************************************************************************)
(* Fair scheduling                                                         *)
(***************************************************************************)

\* The steps of the span lifecycle when every span is started without an
\* explicit trace, no trace has an observer and no fault propagates.
LiveNext ==
  \/ \E s \in Spans, ctx \in Ctxs : NewSpan(s, ctx, NoTrace)
  \/ \E s \in Spans : ObserveTrace(s)
  \/ \E s \in Spans : GetObserver(s)
  \/ \E s \in Spans : FStart(s)
  \/ \E s \in Spans : RootSpanStart(s)
  \/ \E s \in Spans : AddChildLock(s)
  \/ \E s \in Spans : AddChildCS(s)
  \/ \E t \in Spans : OrphanLock(t)
  \/ \E t \in Spans : OrphanCS(t)
  \/ \E t \in Spans : OrphanedSpan(t)
  \/ \E s \in Spans : Exit(s, NoFault)
  \/ \E s \in Spans : FEnd(s)
  \/ \E s \in Spans : FinishLock(s)
  \/ \E s \in Spans : FinishCS(s)
  \/ \E s \in Spans : FinishLoop(s)
  \/ \E s \in Spans : RemoveChildLock(s)
  \/ \E s \in Spans : RemoveChildCS(s)
  \/ \E s \in Spans : OrphanEnd(s)
  \/ \E s \in Spans : RootSpanEnd(s)

\* The next step of the path of span s inside newSpan or the exit closure:
\* every step but the caller's decisions to start a span and to invoke the
\* closure.
PathStep(s) ==
  \/ ObserveTrace(s) \/ GetObserver(s) \/ FStart(s) \/ RootSpanStart(s)
  \/ AddChildLock(s) \/ AddChildCS(s) \/ OrphanLock(s) \/ OrphanCS(s)
  \/ OrphanedSpan(s) \/ FEnd(s) \/ FinishLock(s) \/ FinishCS(s)
  \/ FinishLoop(s) \/ RemoveChildLock(s) \/ RemoveChildCS(s)
  \/ OrphanEnd(s) \/ RootSpanEnd(s)

\* The scheduler runs every path that can take a step, and callbacks return.
FairSpec ==
  Init /\ [][LiveNext]_vars /\ \A s \in Spans : WF_vars(PathStep(s))

(***************************************************************************)
(* Annotate and Annotations                                                *)
(***************************************************************************)

\* The variables of the span lifecycle that the accessors leave alone.
spanVars == <<pc, parent, trace, observer, done, orphaned, children, rec,
              orphanedLoc, snap, target, traceObserver, calls, panickedArg,
              raised, orphanCalls, liveAtParentDone, parentAtStart,
              setObserverCalls, ctxSpan, everObserved>>

\* The elements of slice h: the first h.len cells of its backing array.
Elems(h) == IF h.arr = NoArray THEN <<>> ELSE SubSeq(heap[h.arr], 1, h.len)

\* The annotations span s stores.
Stored(s) == Elems(annotations[s])

\* A backing array not yet allocated.
FreshArray == CHOOSE a \in Arrays : heap[a] = <<>>

\* An array of n cells holding the elements es, the other cells zero.
MakeArray(es, n) == [i \in 1..n |-> IF i <= Len(es) THEN es[i] ELSE "zero"]

\* The capacity append() grows a full slice of capacity c to.
Grow(c) == IF c = 0 THEN 1 ELSE 2 * c

\* A caller on path t calls s.Annotate(name, val).
AnnotateCall(t, s, v) ==
  /\ apc[t] = "idle"
  /\ Constructed(s)
  /\ annotations[s].len < MaxAnnotations
  /\ aspan' = [aspan EXCEPT ![t] = s]
  /\ aval' = [aval EXCEPT ![t] = v]
  /\ apc' = [apc EXCEPT ![t] = "annotate_lock"]
  /\ UNCHANGED <<spanVars, mtx, annotations, heap, alocal, acopy, aret,
                 result, seen, returned>>

\* Line 235: s.mtx.Lock().
AnnotateLock(t) ==
  /\ apc[t] = "annotate_lock"
  /\ Lock(aspan[t], Holder(t))
  /\ apc' = [apc EXCEPT ![t] = "annotate_cs"]
  /\ UNCHANGED <<spanVars, annotations, heap, aspan, aval, alocal, acopy,
                 aret, result, seen, returned>>

\* Lines 236-237: s.annotations = append(s.annotations, ...), unlock.
\* append writes the cell after the last element if the array has room,
\* else it copies the elements to a larger array first.
Annotate(t) ==
  /\ apc[t] = "annotate_cs"
  /\ LET s == aspan[t]
         h == annotations[s]
     IN IF h.len < h.cap
          THEN /\ heap' = [heap EXCEPT ![h.arr][h.len + 1] = aval[t]]
               /\ annotations' = [annotations EXCEPT ![s].len = h.len + 1]
          ELSE /\ heap' = [heap EXCEPT ![FreshArray] =
                             MakeArray(Append(Elems(h), aval[t]), Grow(h.cap))]
               /\ annotations' = [annotations EXCEPT ![s] =
                                    [arr |-> FreshArray, len |-> h.len + 1,
                                     cap |-> Grow(h.cap)]]
  /\ Unlock(aspan[t])
  /\ aspan' = [aspan EXCEPT ![t] = NoSpan]
  /\ aval' = [aval EXCEPT ![t] = "none"]
  /\ apc' = [apc EXCEPT ![t] = "idle"]
  /\ UNCHANGED <<spanVars, alocal, acopy, aret, result, seen, returned>>

\* A caller on path t calls s.Annotations(); every path makes one call.
AnnotationsCall(t, s) ==
  /\ apc[t] = "idle"
  /\ Constructed(s)
  /\ result[t] = NotReturned
  /\ aspan' = [aspan EXCEPT ![t] = s]
  /\ seen' = [seen EXCEPT ![t] = returned[s]]
  /\ apc' = [apc EXCEPT ![t] = "annotations_lock"]
  /\ UNCHANGED <<spanVars, mtx, annotations, heap, aval, alocal, acopy, aret,
                 result, returned>>

\* Line 228: s.mtx.Lock().
AnnotationsLock(t) ==
  /\ apc[t] = "annotations_lock"
  /\ Lock(aspan[t], Holder(t))
  /\ apc' = [apc EXCEPT ![t] = "annotations_cs"]
  /\ UNCHANGED <<spanVars, annotations, heap, aspan, aval, alocal, acopy,
                 aret, result, seen, returned>>

\* Lines 229-230: the slice header is read into a local, then unlock.
AnnotationsCS(t) ==
  /\ apc[t] = "annotations_cs"
  /\ alocal' = [alocal EXCEPT ![t] = annotations[aspan[t]]]
  /\ Unlock(aspan[t])
  /\ apc' = [apc EXCEPT ![t] = "annotations_copy"]
  /\ UNCHANGED <<spanVars, annotations, heap, aspan, aval, acopy, aret,
                 result, seen, returned>>

\* Line 231: append([]Annotation(nil), annotations...) reads the elements
\* of the local slice one by one, holding no lock.
AnnotationsCopy(t) ==
  /\ apc[t] = "annotations_copy"
  /\ Len(acopy[t]) < alocal[t].len
  /\ acopy' = [acopy EXCEPT ![t] =
                 Append(@, heap[alocal[t].arr][Len(@) + 1])]
  /\ UNCHANGED <<spanVars, mtx, annotations, heap, apc, aspan, aval, alocal,
                 aret, result, seen, returned>>

\* Variant of AnnotationsReturn that returns the local slice itself.
AnnotationsReturn_NoCopy(t) ==
  /\ apc[t] = "annotations_copy"
  /\ Len(acopy[t]) = alocal[t].len
  /\ aret' = [aret EXCEPT ![t] = alocal[t]]
  /\ result' = [result EXCEPT ![t] = acopy[t]]
  /\ returned' = [returned EXCEPT ![aspan[t]] = @ \cup {acopy[t]}]
  /\ aspan' = [aspan EXCEPT ![t] = NoSpan]
  /\ alocal' = [alocal EXCEPT ![t] = NilSlice]
  /\ acopy' = [acopy EXCEPT ![t] = <<>>]
  /\ apc' = [apc EXCEPT ![t] = "idle"]
  /\ UNCHANGED <<spanVars, mtx, annotations, heap, aval, seen>>

\* Line 231: the copied elements are returned in an array of their own
\* (a nil slice if there are none).
AnnotationsReturn(t) ==
  /\ apc[t] = "annotations_copy"
  /\ Len(acopy[t]) = alocal[t].len
  /\ IF acopy[t] = <<>>
       THEN /\ aret' = [aret EXCEPT ![t] = NilSlice]
            /\ UNCHANGED heap
       ELSE /\ heap' = [heap EXCEPT ![FreshArray] = acopy[t]]
            /\ aret' = [aret EXCEPT ![t] =
                          [arr |-> FreshArray, len |-> Len(acopy[t]),
                           cap |-> Len(acopy[t])]]
  /\ result' = [result EXCEPT ![t] = acopy[t]]
  /\ returned' = [returned EXCEPT ![aspan[t]] = @ \cup {acopy[t]}]
  /\ aspan' = [aspan EXCEPT ![t] = NoSpan]
  /\ alocal' = [alocal EXCEPT ![t] = NilSlice]
  /\ acopy' = [acopy EXCEPT ![t] = <<>>]
  /\ apc' = [apc EXCEPT ![t] = "idle"]
  /\ UNCHANGED <<spanVars, mtx, annotations, aval, seen>>

\* The caller of Annotations() overwrites element i of the slice it got.
Modify(t, i) ==
  /\ apc[t] = "idle"
  /\ aret[t].arr # NoArray
  /\ i \in 1..aret[t].len
  /\ heap[aret[t].arr][i] # Scribble
  /\ heap' = [heap EXCEPT ![aret[t].arr][i] = Scribble]
  /\ UNCHANGED <<spanVars, mtx, annotations, apc, aspan, aval, alocal, acopy,
                 aret, result, seen, returned>>

\* A root span, started on a trace without observer, is running (the state
\* NewSpan, ObserveTrace, GetObserver, FStart and RootSpanStart lead to).
AnnInit ==
  /\ pc = [s \in Spans |-> IF s = 1 THEN "running" ELSE "idle"]
  /\ parent = [s \in Spans |-> NoSpan]
  /\ trace = [s \in Spans |-> IF s = 1 THEN 1 ELSE NoTrace]
  /\ observer = [s \in Spans |-> FALSE]
  /\ done = [s \in Spans |-> FALSE]
  /\ orphaned = [s \in Spans |-> FALSE]
  /\ children = [s \in Spans |-> {}]
  /\ mtx = [s \in Spans |-> Free]
  /\ rec = [s \in Spans |-> NoFault]
  /\ orphanedLoc = [s \in Spans |-> FALSE]
  /\ snap = [s \in Spans |-> {}]
  /\ target = [s \in Spans |-> NoSpan]
  /\ traceObserver = [t \in Traces |-> FALSE]
  /\ calls = [s \in Spans |-> [c \in Callbacks \cup {"panic"} |->
                IF s = 1 /\ c \in {"observeTrace", "fstart", "rootSpanStart"}
                  THEN 1 ELSE 0]]
  /\ panickedArg = [s \in Spans |-> [c \in {"fend", "obsFinish"} |-> "unset"]]
  /\ raised = [s \in Spans |-> NoFault]
  /\ orphanCalls = [s \in Spans |-> [addChild |-> 0, finish |-> 0]]
  /\ liveAtParentDone = [s \in Spans |-> FALSE]
  /\ parentAtStart = [s \in Spans |-> "none"]
  /\ setObserverCalls = 0
  /\ ctxSpan = [s \in Spans |-> NoSpan]
  /\ everObserved = traceObserver
  /\ annotations = [s \in Spans |-> NilSlice]
  /\ heap = [a \in Arrays |-> <<>>]
  /\ apc = [t \in Accessors |-> "idle"]
  /\ aspan = [t \in Accessors |-> NoSpan]
  /\ aval = [t \in Accessors |-> "none"]
  /\ alocal = [t \in Accessors |-> NilSlice]
  /\ acopy = [t \in Accessors |-> <<>>]
  /\ aret = [t \in Accessors |-> NilSlice]
  /\ result = [t \in Accessors |-> NotReturned]
  /\ seen = [t \in Accessors |-> {}]
  /\ returned = [s \in Spans |-> {}]

AnnNext ==
  \/ \E t \in Accessors, s \in Spans, v \in AnnValues : AnnotateCall(t, s, v)
  \/ \E t \in Accessors : AnnotateLock(t)
  \/ \E t \in Accessors : Annotate(t)
  \/ \E t \in Accessors, s \in Spans : AnnotationsCall(t, s)
  \/ \E t \in Accessors : AnnotationsLock(t)
  \/ \E t \in Accessors : AnnotationsCS(t)
  \/ \E t \in Accessors : AnnotationsCopy(t)
  \/ \E t \in Accessors : AnnotationsReturn(t)
  \/ \E t \in Accessors, i \in 1..MaxLen : Modify(t, i)

AnnSpec == AnnInit /\ [][AnnNext]_vars

TypeOK ==
  /\ pc \in [Spans -> {"idle", "observeTrace", "getObserver", "fstart",
                       "addChild_lock", "addChild_cs", "a_orphan_lock",
                       "a_orphan_cs", "a_orphanedSpan", "rootSpanStart",
                       "obsStart", "running"} \cup InExit]
  /\ parent \in [Spans -> Spans \cup {NoSpan}]
  /\ trace \in [Spans -> Traces \cup {NoTrace}]
  /\ children \in [Spans -> SUBSET Spans]
  /\ mtx \in [Spans -> Spans \cup {Free}]
  /\ ctxSpan \in [Spans -> Spans \cup {NoSpan}]
  /\ everObserved \in [Traces -> BOOLEAN]

\* Span.Orphaned (lines 240-245): the flag, read under the span's lock.
Orphaned(s) == orphaned[s]

(***************************************************************************)
(* Properties                                                              *)
(***************************************************************************)

Finished(s) == pc[s] = "finished"

\* newSpan has returned the span to its caller.
StartReturned(s) == pc[s] \in {"running"} \cup InExit

\* The exit closure of p has left its loop over the snapshot (line 131).
OrphaningDone(p) ==
  pc[p] \in {"removeChild_lock", "removeChild_cs", "orphanEnd", "rootSpanEnd",
             "obsFinish", "panic", "finished"}

\* The child is inserted in its parent's set and has not yet removed itself.
Attached(c) ==
  pc[c] \in {"a_orphan_lock", "a_orphan_cs", "a_orphanedSpan", "obsStart",
             "running", "fend", "finish_lock", "finish_cs", "finish_loop",
             "f_orphan_lock", "f_orphan_cs", "f_orphanedSpan",
             "removeChild_lock", "removeChild_cs"}

OrphanCallsOn(c) == orphanCalls[c].addChild + orphanCalls[c].finish

\* No path is inside an orphan() call on s.
NoOrphanCallRunning(s) == \A t \in Spans : target[t] # s

\* C1 as stated: a non-root span that was in its parent's child set and not
\* yet done when the parent's exit closure set done has, once both have
\* finished, been reported by orphanedSpan exactly once.
C1_ExactlyOneForEveryLiveChild ==
  \A c \in Spans :
    (parent[c] # NoSpan /\ liveAtParentDone[c]
       /\ Finished(c) /\ Finished(parent[c]))
      => calls[c].orphanedSpan = 1

\* C1 as amended: orphanedSpan is never reported twice for a non-root span;
\* it has been reported exactly once whenever the parent's exit closure has
\* left its orphaning loop, the child's newSpan has returned and the child
\* has not set done; and a child that was live at the parent's snapshot and
\* for which the parent's orphan() call reported nothing had set done first.
C1_OrphanExactlyOnce ==
  \A c \in Spans :
    parent[c] # NoSpan =>
      /\ calls[c].orphanedSpan <= 1
      /\ (OrphaningDone(parent[c]) /\ StartReturned(c) /\ ~done[c])
           => calls[c].orphanedSpan = 1
      /\ (liveAtParentDone[c] /\ OrphaningDone(parent[c])
            /\ calls[c].orphanedSpan = 0)
           => done[c] /\ ~Orphaned(c)

C1_Witness ==
  \E c \in Spans :
    /\ parent[c] # NoSpan /\ liveAtParentDone[c]
    /\ Finished(c) /\ Finished(parent[c])
    /\ calls[c].orphanedSpan = 1

\* C2 as stated: a child whose newSpan began while its parent's exit closure
\* was running has, once both have finished, received an orphan() call (from
\* the snapshot loop or from addChild) and been reported by orphanedSpan
\* exactly once.
C2_RacingChildAlwaysOrphaned ==
  \A c \in Spans :
    (parentAtStart[c] = "exiting" /\ Finished(c) /\ Finished(parent[c]))
      => /\ OrphanCallsOn(c) >= 1
         /\ calls[c].orphanedSpan = 1

\* C2 as amended: a child that starts while its parent finishes receives at
\* most one orphan() call and at most one orphanedSpan report; if it is in
\* the parent's child set once the parent has left its orphaning loop it has
\* received exactly one orphan() call (from the loop or from addChild); and
\* if its newSpan has returned and it has not set done by then, it is
\* orphaned and reported exactly once.
C2_RaceSafety ==
  \A c \in Spans :
    parent[c] # NoSpan =>
      /\ OrphanCallsOn(c) <= 1
      /\ calls[c].orphanedSpan <= OrphanCallsOn(c)
      /\ (c \in children[parent[c]] /\ OrphaningDone(parent[c]))
           => OrphanCallsOn(c) = 1
      /\ (OrphaningDone(parent[c]) /\ StartReturned(c) /\ ~done[c])
           => Orphaned(c) /\ calls[c].orphanedSpan = 1

C2_Witness ==
  \E c \in Spans :
    /\ parentAtStart[c] = "exiting"
    /\ orphanCalls[c].addChild = 1
    /\ StartReturned(c)
    /\ calls[c].orphanedSpan = 1

\* C3: no step makes the number of orphanedSpan reports of a span exceed
\* one, and no step reports orphanedSpan for a span whose done is true.
C3_OrphanIdempotent ==
  [][\A s \in Spans :
       /\ calls'[s].orphanedSpan <= 1
       /\ done[s] => calls'[s].orphanedSpan = calls[s].orphanedSpan]_vars

\* An orphan() call on a span that was already done has returned.
C3_Witness ==
  \E s \in Spans :
    /\ done[s] /\ OrphanCallsOn(s) = 1 /\ NoOrphanCallRunning(s)
    /\ calls[s].orphanedSpan = 0

\* C4: orphanEnd never precedes orphanedSpan and neither is reported twice;
\* a finished non-root span has reported orphanEnd exactly if orphanedSpan
\* was reported for it; a child whose parent finished before the child's
\* exit closure began has been reported by orphanedSpan once; a finished
\* root has reported rootSpanEnd once, and a non-root span never.
C4_OrphanPairing ==
  \A s \in Spans :
    /\ calls[s].orphanEnd <= calls[s].orphanedSpan
    /\ calls[s].orphanedSpan <= 1
    /\ calls[s].rootSpanEnd <= 1
    /\ (parent[s] # NoSpan /\ Finished(s))
         => calls[s].orphanEnd = calls[s].orphanedSpan
    /\ (parent[s] # NoSpan /\ Finished(parent[s]) /\ pc[s] = "running")
         => calls[s].orphanedSpan = 1
    /\ parent[s] # NoSpan => calls[s].rootSpanEnd = 0
    /\ (parent[s] = NoSpan /\ Finished(s)) => calls[s].rootSpanEnd = 1

C4_Witness ==
  \E a, b \in Spans :
    /\ parent[a] = NoSpan /\ parent[b] = a
    /\ Finished(a) /\ Finished(b)
    /\ calls[a].rootSpanEnd = 1
    /\ calls[b].orphanedSpan = 1 /\ calls[b].orphanEnd = 1

\* C5: a span started with a parent whose exit closure had completed is,
\* once its newSpan has returned, orphaned and reported by orphanedSpan
\* exactly once.
C5_LateAttach ==
  \A c \in Spans :
    (parentAtStart[c] = "finished" /\ StartReturned(c))
      => Orphaned(c) /\ calls[c].orphanedSpan = 1

C5_Witness ==
  \E c \in Spans :
    parentAtStart[c] = "finished" /\ pc[c] = "running" /\ Orphaned(c)

\* C6 as stated: a child whose addChild found the parent done is never in
\* the child set of the done parent while its own orphaned is false.
C6_NoDeadParentWindow ==
  \A c \in Spans :
    orphanCalls[c].addChild = 1 =>
      ~(c \in children[parent[c]] /\ done[parent[c]] /\ ~Orphaned(c))

\* C6 as amended: a child whose addChild found the parent done is in the
\* done parent's child set with orphaned false only inside its own newSpan,
\* between addChild's insertion and the test of the orphan() call addChild
\* makes; once newSpan has returned it is orphaned.
C6_WindowOnlyInsideStart ==
  \A c \in Spans :
    orphanCalls[c].addChild = 1 =>
      /\ (c \in children[parent[c]] /\ done[parent[c]] /\ ~Orphaned(c))
           => pc[c] \in {"a_orphan_lock", "a_orphan_cs"}
      /\ StartReturned(c) => Orphaned(c)

C6_Witness ==
  \E c \in Spans :
    /\ orphanCalls[c].addChild = 1 /\ parentAtStart[c] = "finished"
    /\ c \in children[parent[c]] /\ pc[c] = "running" /\ Orphaned(c)

\* C7 as stated: once a span's exit closure has completed, its child set is
\* empty.
C7_ChildSetEmptyAfterFinish ==
  \A p \in Spans : Finished(p) => children[p] = {}

\* C7 as amended: once a span's exit closure has completed, its child set
\* holds exactly the children that have inserted themselves and have not
\* yet removed themselves in their own exit closure; it is empty once all
\* of its children have finished.
C7_ChildSetAfterFinish ==
  \A p \in Spans :
    Finished(p) =>
      /\ children[p] = {c \in Spans : parent[c] = p /\ Attached(c)}
      /\ (\A c \in Spans : parent[c] = p => Finished(c)) => children[p] = {}

C7_Witness ==
  \E p, c \in Spans :
    /\ Finished(p) /\ parent[c] = p /\ Finished(c)
    /\ liveAtParentDone[c] /\ children[p] = {}

\* C8: a path that is executing a Func, registry or observer callback holds
\* no span's lock.
C8_NoCallbackUnderLock ==
  \A t \in Spans : pc[t] \in InCallback => \A m \in Spans : mtx[m] # t

\* C9: no step resets done or orphaned of any span, so a read through
\* Orphaned() that follows one returning true returns true.
C9_Monotonic ==
  [][\A s \in Spans :
       /\ done[s] => done'[s]
       /\ Orphaned(s) => Orphaned(s)']_vars

C9_Witness ==
  \E s \in Spans : Finished(s) /\ done[s] /\ Orphaned(s)

C11_RootLifecycle ==
  \A s \in Spans :
    /\ calls[s].rootSpanStart <= 1
    /\ calls[s].rootSpanEnd <= calls[s].rootSpanStart
    /\ (parent[s] = NoSpan /\ StartReturned(s)) => calls[s].rootSpanStart = 1
    /\ (parent[s] = NoSpan /\ Finished(s)) => calls[s].rootSpanEnd = 1
    /\ pc[s] \notin InExit => calls[s].rootSpanEnd = 0
    /\ parent[s] = NoSpan =>
         /\ ~Orphaned(s)
         /\ calls[s].orphanedSpan = 0 /\ calls[s].orphanEnd = 0
         /\ OrphanCallsOn(s) = 0
    /\ parent[s] # NoSpan =>
         calls[s].rootSpanStart = 0 /\ calls[s].rootSpanEnd = 0
    /\ (trace[s] # NoTrace /\ ~everObserved[trace[s]]) =>
         calls[s].obsStart = 0 /\ calls[s].obsFinish = 0

\* A root whose trace never had an observer has finished after its child
\* was started, and a span with a parent has finished too.
C11_Witness ==
  \E s, c \in Spans :
    /\ parent[s] = NoSpan /\ Finished(s) /\ ~everObserved[trace[s]]
    /\ calls[s].rootSpanStart = 1 /\ calls[s].rootSpanEnd = 1
    /\ parent[c] = s /\ Finished(c)

\* C12: the parent of a started span is the span its context was or
\* carried, whether or not a trace was passed explicitly, and such a span
\* is never reported as a root; it has no parent only if there was none.
C12_ParentFromContext ==
  \A s \in Spans :
    pc[s] # "idle" =>
      /\ parent[s] = ctxSpan[s]
      /\ ctxSpan[s] # NoSpan => calls[s].rootSpanStart = 0

\* C13 as stated: a span that has set done is not in its parent's child
\* set.
C13_NeverDoneInChildSet ==
  \A c \in Spans :
    parent[c] # NoSpan => ~(done[c] /\ c \in children[parent[c]])

\* C13 as amended: a span is in a child set exactly if the set is its
\* parent's and its path is between addChild's insertion (in newSpan) and
\* removeChild's removal (in the exit closure, after done is set and the
\* snapshotted children are orphaned); a finished span is in no child set,
\* orphaned or not.
C13_MembershipInterval ==
  /\ \A c, p \in Spans :
       c \in children[p] <=> (parent[c] = p /\ Attached(c))
  /\ \A c \in Spans :
       (parent[c] # NoSpan /\ done[c] /\ c \in children[parent[c]])
         => pc[c] \in {"finish_loop", "f_orphan_lock", "f_orphan_cs",
                       "f_orphanedSpan", "removeChild_lock", "removeChild_cs"}

\* An orphaned span has set done and is about to remove itself from its
\* parent's child set, and another span has finished and removed itself
\* without having been orphaned.
C13_Witness ==
  \E c, d \in Spans :
    /\ parent[c] # NoSpan /\ Orphaned(c) /\ done[c]
    /\ pc[c] = "removeChild_lock" /\ c \in children[parent[c]]
    /\ parent[d] # NoSpan /\ Finished(d) /\ ~Orphaned(d)
    /\ d \notin children[parent[d]]

\* C14 as stated: an orphaned span was in its parent's child set and not
\* done when the parent's exit closure set done and took its snapshot.
C14_OrphanedOnlyFromSnapshot ==
  \A c \in Spans : Orphaned(c) => liveAtParentDone[c]

\* C14 as amended: an orphaned span has a parent that has set done, and
\* either it was in the parent's child set and not done when the parent set
\* done and took its snapshot, or it inserted itself after that and its own
\* addChild found the parent done; never both.
C14_OrphanPrecondition ==
  \A c \in Spans :
    Orphaned(c) =>
      /\ parent[c] # NoSpan /\ done[parent[c]]
      /\ liveAtParentDone[c] \/ orphanCalls[c].addChild = 1
      /\ ~(liveAtParentDone[c] /\ orphanCalls[c].addChild = 1)
      /\ liveAtParentDone[c] => orphanCalls[c].finish = 1
      /\ calls[c].orphanedSpan <= 1

\* One span was orphaned through its parent's snapshot and another through
\* its own addChild.
C14_Witness ==
  \E c, d \in Spans :
    /\ Orphaned(c) /\ liveAtParentDone[c] /\ orphanCalls[c].finish = 1
    /\ Orphaned(d) /\ ~liveAtParentDone[d] /\ orphanCalls[d].addChild = 1

IsPrefix(a, b) == Len(a) <= Len(b) /\ SubSeq(b, 1, Len(a)) = a

\* C15: every sequence an Annotations() call has returned is, as it was
\* returned, a prefix of the annotations the span stores, whatever callers
\* have written into returned slices since; the stored annotations hold
\* only appended values; a call's result extends every sequence returned
\* before the call began; no returned slice shares its array with the
\* span's slice or with another returned slice; and the elements a call has
\* copied so far are a prefix of the stored annotations.
C15_AnnotationsSnapshot ==
  /\ \A s \in Spans :
       /\ \A q \in returned[s] : IsPrefix(q, Stored(s))
       /\ \A i \in 1..Len(Stored(s)) : Stored(s)[i] \in AnnValues
  /\ \A t \in Accessors :
       /\ result[t] # NotReturned =>
            \A q \in seen[t] : IsPrefix(q, result[t])
       /\ aret[t].arr # NoArray =>
            /\ \A s \in Spans : annotations[s].arr # aret[t].arr
            /\ \A u \in Accessors \ {t} : aret[u].arr # aret[t].arr
       /\ aspan[t] # NoSpan => IsPrefix(acopy[t], Stored(aspan[t]))

\* A call returned a non-empty sequence, its caller overwrote the first
\* element, and a call that began later returned a longer sequence.
C15_Witness ==
  \E t, u \in Accessors :
    /\ result[t] # NotReturned /\ Len(result[t]) >= 1
    /\ heap[aret[t].arr][1] = Scribble
    /\ result[u] # NotReturned /\ result[t] \in seen[u]
    /\ Len(result[u]) > Len(result[t])
    /\ Stored(1)[1] \in AnnValues

\* The registry's end report of span s has been made, as far as one is due.
EndReported(s) ==
  /\ calls[s].rootSpanEnd = (IF parent[s] = NoSpan THEN 1 ELSE 0)
  /\ calls[s].orphanEnd =
       (IF parent[s] # NoSpan /\ orphanedLoc[s] THEN 1 ELSE 0)
  /\ parent[s] # NoSpan => s \notin children[parent[s]]

\* C16: inside one exit closure, done is set only after Func.end was
\* reported; orphan() is called on snapshotted children only after done is
\* set and the span's lock released, and before the span removes itself;
\* the span removes itself and reports orphanEnd (if it was orphaned) or
\* rootSpanEnd only after orphan() has returned for every snapshotted
\* child; the observer's Finish comes only after that report; and the
\* fault is re-raised only after the observer's Finish.
C16_FinishOrder ==
  \A s \in Spans :
    /\ pc[s] \in {"finish_lock", "finish_cs"} =>
         calls[s].fend = 1 /\ ~done[s] /\ snap[s] = {}
    /\ done[s] => calls[s].fend = 1
    /\ pc[s] \in {"finish_loop", "f_orphan_lock", "f_orphan_cs",
                   "f_orphanedSpan"} =>
         /\ done[s] /\ mtx[s] # s
         /\ parent[s] # NoSpan => s \in children[parent[s]]
         /\ calls[s].orphanEnd = 0 /\ calls[s].rootSpanEnd = 0
         /\ calls[s].obsFinish = 0 /\ calls[s].panic = 0
    /\ \A c \in Spans :
         (parent[c] = s /\ orphanCalls[c].finish > 0) =>
           done[s] /\ calls[s].fend = 1
    /\ pc[s] \in {"removeChild_lock", "removeChild_cs", "orphanEnd",
                   "rootSpanEnd"} =>
         /\ done[s] /\ snap[s] = {} /\ target[s] = NoSpan
         /\ calls[s].rootSpanEnd = 0 /\ calls[s].orphanEnd = 0
         /\ calls[s].obsFinish = 0 /\ calls[s].panic = 0
    /\ pc[s] = "orphanEnd" => orphanedLoc[s] /\ s \notin children[parent[s]]
    /\ pc[s] = "obsFinish" =>
         EndReported(s) /\ calls[s].obsFinish = 0 /\ calls[s].panic = 0
    /\ calls[s].obsFinish > 0 => EndReported(s) /\ snap[s] = {}
    /\ pc[s] \in {"panic", "finished"} =>
         /\ EndReported(s)
         /\ calls[s].obsFinish = (IF observer[s] THEN 1 ELSE 0)
    /\ pc[s] = "panic" => calls[s].panic = 0
    /\ calls[s].panic > 0 => Finished(s)

\* An orphaned span with an observer and with a snapshotted child is about
\* to re-raise its fault, every earlier step made.
C16_Witness ==
  \E s, c \in Spans :
    /\ pc[s] = "panic" /\ calls[s].fend = 1
    /\ parent[c] = s /\ orphanCalls[c].finish = 1
    /\ calls[s].orphanEnd = 1 /\ calls[s].obsFinish = 1

\* C17: when an exit closure passes from the registry's end report to its
\* next step, it calls the observer's Finish exactly if the span's trace
\* has an observer at that moment.
C17_FinishIffObserverNow ==
  [][\A s \in Spans :
       (/\ pc[s] \in {"removeChild_cs", "orphanEnd", "rootSpanEnd"}
        /\ pc'[s] \in {"obsFinish", "panic", "finished"})
         => (pc'[s] = "obsFinish" <=> traceObserver[trace[s]])]_vars

\* The locks path t holds, and the positions at which a path waits for a
\* lock or is inside a locked section.
HeldBy(t) == {m \in Spans : mtx[m] = t}

LockWaits == {"addChild_lock", "a_orphan_lock", "f_orphan_lock", "finish_lock",
              "removeChild_lock"}

LockedSections == {"addChild_cs", "a_orphan_cs", "a_orphanedSpan",
                   "f_orphan_cs", "f_orphanedSpan", "finish_cs",
                   "removeChild_cs"}

\* The lock a waiting path is about to take.
WaitsFor(t) ==
  IF pc[t] \in {"addChild_lock", "removeChild_lock"} THEN parent[t]
  ELSE IF pc[t] \in InOrphanLock THEN target[t]
  ELSE t

\* C19: no path holds two span locks; a path holds a lock only inside a
\* locked section and none while it waits for one, in particular when the
\* exit closure or addChild calls orphan() and when the exit closure calls
\* removeChild; so the lock a path waits for is free or held by a path that
\* is not itself waiting, and some path can always take a step.
C19_NoNestedLocks ==
  \A t \in Spans :
    /\ Cardinality(HeldBy(t)) <= 1
    /\ HeldBy(t) # {} <=> pc[t] \in LockedSections
    /\ pc[t] \in LockWaits =>
         /\ HeldBy(t) = {}
         /\ \/ mtx[WaitsFor(t)] = Free
            \/ pc[mtx[WaitsFor(t)]] \in LockedSections
         /\ ENABLED Next

\* An exit closure waits, holding nothing, for the lock of a child that
\* another path holds, while a third path waits for a lock too.
C19_Witness ==
  \E t, u, v \in Spans :
    /\ pc[t] = "f_orphan_lock" /\ mtx[target[t]] = u /\ u # t
    /\ v \notin {t, u} /\ pc[v] \in LockWaits

\* C20: orphan() is only ever running on a span from its parent's exit
\* closure or from the span's own addChild; a step of a path changes the
\* flags orphaned and done of no span but the path's own and its children,
\* and the child set of no span but its own parent; the step that orphans a
\* span changes the orphaned flag of no other span; and a span is orphaned
\* only if its own parent has set done.
C20_OneLevel ==
  [][/\ \A t \in Spans :
          target'[t] # NoSpan =>
            target'[t] = t \/ parent'[target'[t]] = t
     /\ \A t, g \in Spans :
          (pc'[t] # pc[t] /\ g # t /\ parent[g] # t) =>
            /\ orphaned'[g] = orphaned[g]
            /\ done'[g] = done[g]
            /\ g # parent[t] => children'[g] = children[g]
     /\ \A c, g \in Spans :
          (orphaned'[c] /\ ~orphaned[c] /\ g # c) =>
            orphaned'[g] = orphaned[g]
     /\ \A g \in Spans :
          orphaned'[g] => parent'[g] # NoSpan /\ done'[parent'[g]]]_vars

\* A span has finished and its child is orphaned, while the running child
\* of that child is not.
C20_Witness ==
  \E p, c, g \in Spans :
    /\ parent[c] = p /\ parent[g] = c
    /\ Finished(p) /\ Orphaned(c) /\ pc[c] = "running"
    /\ pc[g] = "running" /\ ~Orphaned(g) /\ g \in children[c]

====
